---- MODULE Spec2Model ----
(***************************************************************************)
(* A model of the Axon executor (core/executor/src/lib.rs) and of the      *)
(* transaction model it depends on (protocol/src/types/transaction.rs).    *)
(*                                                                         *)
(* Spec     the block transition AxonExecutor::exec as a state machine     *)
(* SpecEvm  one application of AxonExecutor::evm_exec to a drawn state     *)
(* SpecTx   the pure functions of the transaction model, and the GetCell   *)
(*          precompile (precompiles/get_cell.rs), on drawn inputs          *)
(* SpecConc call and exec entering on two threads while the hardfork       *)
(*          snapshot is swapped                                            *)
(* SpecConfig one call or exec from entry to its last transaction, with    *)
(*          snapshot swaps and rewrites of the metadata root in storage    *)
(*                                                                         *)
(* Option<T> is a sequence: <<>> is None and <<x>> is Some(x).             *)
(***************************************************************************)
EXTENDS Integers, Sequences, FiniteSets, TLC

VARIABLES pc, txs, idx, block_number, accounts, logbuf, gas_price_cur,
          origin, res, encode_receipts, gas, fee, alloc, allocCalls,
          credits, events, committed, ret, fnCall,
          threads, CURRENT_HEADER_CELL_ROOT, CURRENT_METADATA_ROOT, HARDFORK_INFO

vars == <<pc, txs, idx, block_number, accounts, logbuf, gas_price_cur,
          origin, res, encode_receipts, gas, fee, alloc, allocCalls,
          credits, events, committed, ret, fnCall,
          threads, CURRENT_HEADER_CELL_ROOT, CURRENT_METADATA_ROOT, HARDFORK_INFO>>

(* the thread-local root cells, the hardfork snapshot and the threads that
   use them; SpecConc is about these, the other specifications leave them
   aside *)
concVars == <<threads, CURRENT_HEADER_CELL_ROOT, CURRENT_METADATA_ROOT, HARDFORK_INFO>>

NoThreads ==
    /\ threads = <<>>
    /\ CURRENT_HEADER_CELL_ROOT = <<>>
    /\ CURRENT_METADATA_ROOT = <<>>
    /\ HARDFORK_INFO = <<>>

execVars == <<pc, txs, idx, block_number, accounts, logbuf, gas_price_cur,
              origin, res, encode_receipts, gas, fee, alloc, allocCalls,
              credits, events, committed, ret>>

(***************************************************************************)
(* Bounds.  The integer widths are scaled down: MAX_U64 and MAX_U256 keep  *)
(* the relation 2^256 = (2^64)^4, so the product of two 64-bit fields      *)
(* always fits in 256 bits, as in the program.  MAX_U64 is large enough    *)
(* for the gas of a whole block (the block gas limit the caller enforces). *)
(***************************************************************************)
MaxTxs == 2

MaxInlets == 1

MaxGas == 1

MAX_U64 == (MaxTxs + 1) * MaxGas

MAX_U256 == (MAX_U64 + 1) * (MAX_U64 + 1) * (MAX_U64 + 1) * (MAX_U64 + 1) - 1

Min(a, b) == IF a < b THEN a ELSE b

Max(a, b) == IF a < b THEN b ELSE a

(***************************************************************************)
(* U256 arithmetic as the program uses it.                                 *)
(***************************************************************************)
checked_add(a, b) == IF a + b > MAX_U256 THEN <<>> ELSE <<a + b>>

checked_mul(a, b) == IF a * b > MAX_U256 THEN <<>> ELSE <<a * b>>

unwrap_or(o, d) == IF o = <<>> THEN d ELSE o[1]

saturating_sub(a, b) == IF a < b THEN 0 ELSE a - b

(***************************************************************************)
(* Addresses.  SystemContracts are the targets system_contract_dispatch    *)
(* claims; every other target goes to the EVM.                             *)
(***************************************************************************)
Addr == {"a1", "a2"}

SystemContracts == {"sc"}

Proposer == "a2"

ExitReasons == {"Succeed", "Revert", "Error", "Fatal"}

is_succeed(exit) == exit = "Succeed"

(***************************************************************************)
(* UnsignedTransaction: type_ is 0 (Legacy), 1 (Eip2930) or 2 (Eip1559);   *)
(* action is "Create" or the address called.                               *)
(***************************************************************************)
type_(tx) == tx.type

gas_price(tx) ==
    IF tx.type = 2 THEN Max(tx.gas_price, tx.max_priority_fee_per_gas)
    ELSE tx.gas_price

Tx(sender, type, gp, prio, gl, action, value) ==
    [sender |-> sender, type |-> type, gas_price |-> gp,
     max_priority_fee_per_gas |-> prio, gas_limit |-> gl,
     action |-> action, value |-> value]

(***************************************************************************)
(* Byte strings are sequences of 0..255.  BloomLen and H160Len scale the   *)
(* 256-byte Bloom and the 20-byte H160.                                    *)
(***************************************************************************)
BloomLen == 3

H160Len == 2

RECURSIVE BeBytes(_)
BeBytes(n) == IF n = 0 THEN <<>> ELSE BeBytes(n \div 256) \o <<n % 256>>

RECURSIVE Concat(_)
Concat(ss) == IF ss = <<>> THEN <<>> ELSE Head(ss) \o Concat(Tail(ss))

RECURSIVE BeBytesN(_, _)
BeBytesN(x, n) == IF n = 0 THEN <<>> ELSE BeBytesN(x \div 256, n - 1) \o <<x % 256>>

to_be_bytes(x) == BeBytesN(x, 8)

AddrIndex(a) == IF a = "a1" THEN 1 ELSE IF a = "a2" THEN 2 ELSE 3

H160Bytes(a) == [j \in 1..H160Len |-> IF j = H160Len THEN 160 + AddrIndex(a) ELSE 0]

Log(a, data) == [address |-> a, topics |-> <<>>, data |-> data]

(***************************************************************************)
(* RLP as RlpStream produces it: append of a byte string or an unsigned    *)
(* integer, and a list header over the concatenated items.                 *)
(***************************************************************************)
RlpBytes(b) ==
    IF Len(b) = 1 /\ b[1] < 128 THEN b
    ELSE IF Len(b) < 56 THEN <<128 + Len(b)>> \o b
    ELSE LET l == BeBytes(Len(b)) IN <<183 + Len(l)>> \o l \o b

RlpUint(n) == RlpBytes(BeBytes(n))

RlpList(payload) ==
    IF Len(payload) < 56 THEN <<192 + Len(payload)>> \o payload
    ELSE LET l == BeBytes(Len(payload)) IN <<247 + Len(l)>> \o l \o payload

RlpLog(log) ==
    RlpList(RlpBytes(H160Bytes(log.address))
            \o RlpList(Concat([j \in 1..Len(log.topics) |-> RlpBytes(log.topics[j])]))
            \o RlpBytes(log.data))

RlpLogs(logs) == RlpList(Concat([j \in 1..Len(logs) |-> RlpLog(logs[j])]))

(* logs_bloom: every log sets the bits of its address. *)
logs_bloom(logs) ==
    [j \in 1..BloomLen |->
        IF \E k \in 1..Len(logs) : AddrIndex(logs[k].address) = j THEN 1 ELSE 0]

encode_receipt_prefix_all(tx, r, bloom) ==
    LET status == IF r.exit_reason = "Succeed" THEN 1 ELSE 0
        legacy_receipt == RlpList(RlpUint(status) \o RlpUint(r.gas_used)
                                  \o RlpBytes(bloom) \o RlpLogs(r.logs))
    IN SubSeq(to_be_bytes(type_(tx)), 8, 8) \o legacy_receipt

encode_receipt(tx, r, bloom) ==
    LET status == IF r.exit_reason = "Succeed" THEN 1 ELSE 0
        used_gas == r.gas_used
        legacy_receipt == RlpList(RlpUint(status) \o RlpUint(used_gas)
                                  \o RlpBytes(bloom) \o RlpLogs(r.logs))
        x == type_(tx)
    IN IF x = 1 \/ x = 2
       THEN SubSeq(to_be_bytes(x), 8, 8) \o legacy_receipt
       ELSE legacy_receipt

(***************************************************************************)
(* may_cost: Ok(c) is <<c>>, Err(PrepayGasIsTooLarge) is <<>>.             *)
(***************************************************************************)
may_cost_wrapping(tx) ==
    LET m == checked_mul(gas_price(tx), tx.gas_limit)
    IN IF m # <<>> THEN <<(m[1] + tx.value) % (MAX_U256 + 1)>> ELSE <<>>

may_cost_u64_product(tx) ==
    LET m == IF gas_price(tx) * tx.gas_limit > MAX_U64 THEN <<>>
             ELSE <<gas_price(tx) * tx.gas_limit>>
    IN IF m # <<>>
       THEN <<unwrap_or(checked_add(m[1], tx.value), MAX_U256)>>
       ELSE <<>>

may_cost(tx) ==
    LET m == checked_mul(gas_price(tx), tx.gas_limit)
    IN IF m # <<>>
       THEN <<unwrap_or(checked_add(m[1], tx.value), MAX_U256)>>
       ELSE <<>>

(***************************************************************************)
(* The adapter: an overlay of accounts (balance, nonce), a log buffer, the *)
(* current gas price and origin, and the committed state.                  *)
(***************************************************************************)
SeqsUpTo(S, n) == UNION {[1..k -> S] : k \in 0..n}

code_address(sender, nonce) == [creator |-> sender, nonce |-> nonce]

StateRoot(acc) == [root |-> acc]

ApplyValues(acc, values) ==
    [a \in Addr |-> IF a \in DOMAIN values THEN values[a] ELSE acc[a]]

(***************************************************************************)
(* evm_exec, in three parts: the pre-pay debit, the run of the EVM (its    *)
(* exit, gas use and, on success, state diff and logs are the EVM's to     *)
(* choose), and the settlement that follows.                               *)
(***************************************************************************)
Prepay_wrapping(acc, gp, tx) ==
    LET prepay_gas == gp * tx.gas_limit
    IN [acc EXCEPT ![tx.sender].balance = (@ - prepay_gas) % (MAX_U256 + 1)]

Prepay(acc, gp, tx) ==
    LET prepay_gas == gp * tx.gas_limit
    IN [acc EXCEPT ![tx.sender].balance = saturating_sub(@, prepay_gas)]

GasSplits(gas_limit) ==
    {s \in (0..gas_limit) \X (0..gas_limit) : s[1] + s[2] <= gas_limit}

EvmDiff(accP, tx) ==
    LET s == tx.sender
        v == tx.value
        after == [accP[s] EXCEPT !.nonce = @ + 1, !.balance = @ - v]
    IN IF tx.action \in Addr \ {s}
       THEN [a \in {s, tx.action} |->
                IF a = s THEN after
                ELSE [accP[a] EXCEPT !.balance = Min(MAX_U256, @ + v)]]
       ELSE IF tx.action = s
       THEN [a \in {s} |-> [accP[s] EXCEPT !.nonce = @ + 1]]
       ELSE [a \in {s} |-> after]

EvmLogs(tx) ==
    {<<>>, <<Log(IF tx.action = "Create" THEN tx.sender ELSE tx.action, <<>>)>>}

(* values and logs are what the executor holds when it exits: on a
   non-success exit they are the writes made before the failure. *)
EvmRun(accP, tx) ==
    {[exit |-> e, used_gas |-> s[1], remain_gas |-> s[2],
      values |-> IF tx.value <= accP[tx.sender].balance THEN EvmDiff(accP, tx) ELSE <<>>,
      logs |-> <<Log(tx.sender, <<>>)>>] :
        e \in ExitReasons \ {"Succeed"}, s \in GasSplits(tx.gas_limit)}
    \cup
    {[exit |-> "Succeed", used_gas |-> s[1], remain_gas |-> s[2],
      values |-> EvmDiff(accP, tx), logs |-> l] :
        s \in {x \in GasSplits(tx.gas_limit) : tx.value <= accP[tx.sender].balance},
        l \in EvmLogs(tx)}

evm_exec_nonce_on_success(acc, buf, gp, tx, o) ==
    LET sender == tx.sender
        old_nonce == acc[sender].nonce
        acc1 == Prepay(acc, gp, tx)
        acc2 == IF is_succeed(o.exit) THEN ApplyValues(acc1, o.values) ELSE acc1
        bal == IF o.remain_gas # 0
               THEN unwrap_or(checked_add(acc2[sender].balance,
                        unwrap_or(checked_mul(o.remain_gas, gp), MAX_U256)), MAX_U256)
               ELSE acc2[sender].balance
    IN [accounts |-> [acc2 EXCEPT ![sender] = [nonce |-> acc2[sender].nonce, balance |-> bal]],
        logbuf |-> IF is_succeed(o.exit) THEN buf \o o.logs ELSE buf,
        resp |-> [exit_reason |-> o.exit, remain_gas |-> o.remain_gas,
                  gas_used |-> o.used_gas,
                  fee_cost |-> unwrap_or(checked_mul(gp, o.used_gas), MAX_U256),
                  logs |-> <<>>,
                  code_address |-> IF tx.action = "Create" /\ is_succeed(o.exit)
                                   THEN <<code_address(sender, old_nonce)>> ELSE <<>>,
                  removed |-> FALSE]]

evm_exec_apply_always(acc, buf, gp, tx, o) ==
    LET sender == tx.sender
        old_nonce == acc[sender].nonce
        acc1 == Prepay(acc, gp, tx)
        acc2 == ApplyValues(acc1, o.values)
        bal == IF o.remain_gas # 0
               THEN unwrap_or(checked_add(acc2[sender].balance,
                        unwrap_or(checked_mul(o.remain_gas, gp), MAX_U256)), MAX_U256)
               ELSE acc2[sender].balance
    IN [accounts |-> [acc2 EXCEPT ![sender] = [nonce |-> old_nonce + 1, balance |-> bal]],
        logbuf |-> buf \o o.logs,
        resp |-> [exit_reason |-> o.exit, remain_gas |-> o.remain_gas,
                  gas_used |-> o.used_gas,
                  fee_cost |-> unwrap_or(checked_mul(gp, o.used_gas), MAX_U256),
                  logs |-> <<>>,
                  code_address |-> IF tx.action = "Create" /\ is_succeed(o.exit)
                                   THEN <<code_address(sender, old_nonce)>> ELSE <<>>,
                  removed |-> FALSE]]

evm_exec_keeps_nonce(acc, buf, gp, tx, o) ==
    LET sender == tx.sender
        old_nonce == acc[sender].nonce
        acc1 == Prepay(acc, gp, tx)
        acc2 == IF is_succeed(o.exit) THEN ApplyValues(acc1, o.values) ELSE acc1
        bal == IF o.remain_gas # 0
               THEN unwrap_or(checked_add(acc2[sender].balance,
                        unwrap_or(checked_mul(o.remain_gas, gp), MAX_U256)), MAX_U256)
               ELSE acc2[sender].balance
    IN [accounts |-> [acc2 EXCEPT ![sender] = [nonce |-> old_nonce, balance |-> bal]],
        logbuf |-> IF is_succeed(o.exit) THEN buf \o o.logs ELSE buf,
        resp |-> [exit_reason |-> o.exit, remain_gas |-> o.remain_gas,
                  gas_used |-> o.used_gas,
                  fee_cost |-> unwrap_or(checked_mul(gp, o.used_gas), MAX_U256),
                  logs |-> <<>>,
                  code_address |-> IF tx.action = "Create" /\ is_succeed(o.exit)
                                   THEN <<code_address(sender, old_nonce)>> ELSE <<>>,
                  removed |-> FALSE]]

evm_exec_address_from_new_nonce(acc, buf, gp, tx, o) ==
    LET sender == tx.sender
        old_nonce == acc[sender].nonce
        acc1 == Prepay(acc, gp, tx)
        acc2 == IF is_succeed(o.exit) THEN ApplyValues(acc1, o.values) ELSE acc1
        bal == IF o.remain_gas # 0
               THEN unwrap_or(checked_add(acc2[sender].balance,
                        unwrap_or(checked_mul(o.remain_gas, gp), MAX_U256)), MAX_U256)
               ELSE acc2[sender].balance
    IN [accounts |-> [acc2 EXCEPT ![sender] = [nonce |-> old_nonce + 1, balance |-> bal]],
        logbuf |-> IF is_succeed(o.exit) THEN buf \o o.logs ELSE buf,
        resp |-> [exit_reason |-> o.exit, remain_gas |-> o.remain_gas,
                  gas_used |-> o.used_gas,
                  fee_cost |-> unwrap_or(checked_mul(gp, o.used_gas), MAX_U256),
                  logs |-> <<>>,
                  code_address |-> IF tx.action = "Create" /\ is_succeed(o.exit)
                                   THEN <<code_address(sender, acc2[sender].nonce)>>
                                   ELSE <<>>,
                  removed |-> FALSE]]

evm_exec(acc, buf, gp, tx, o) ==
    LET sender == tx.sender
        tx_gas_price == gp
        old_nonce == acc[sender].nonce
        acc1 == Prepay(acc, tx_gas_price, tx)
        code_addr == IF tx.action = "Create" /\ is_succeed(o.exit)
                     THEN <<code_address(sender, old_nonce)>> ELSE <<>>
        acc2 == IF is_succeed(o.exit) THEN ApplyValues(acc1, o.values) ELSE acc1
        buf2 == IF is_succeed(o.exit) THEN buf \o o.logs ELSE buf
        account == acc2[sender]
        bal == IF o.remain_gas # 0
               THEN LET remain_gas == unwrap_or(checked_mul(o.remain_gas, tx_gas_price),
                                                MAX_U256)
                    IN unwrap_or(checked_add(account.balance, remain_gas), MAX_U256)
               ELSE account.balance
        acc3 == [acc2 EXCEPT ![sender] = [nonce |-> old_nonce + 1, balance |-> bal]]
    IN [accounts |-> acc3,
        logbuf |-> buf2,
        resp |-> [exit_reason |-> o.exit, remain_gas |-> o.remain_gas,
                  gas_used |-> o.used_gas,
                  fee_cost |-> unwrap_or(checked_mul(tx_gas_price, o.used_gas), MAX_U256),
                  logs |-> <<>>,
                  code_address |-> code_addr,
                  removed |-> FALSE]]

(***************************************************************************)
(* system_contract_dispatch: None for a target that is no system contract; *)
(* otherwise the contract's own TxResp, with the logs it pushed to the     *)
(* adapter's buffer.                                                       *)
(***************************************************************************)
SysOutcomes(tx) ==
    {[exit |-> "Succeed", fee_cost |-> MAX_U256, logs |-> <<Log("sc", <<>>)>>],
     [exit |-> "Succeed", fee_cost |-> 1, logs |-> <<>>],
     [exit |-> "Revert", fee_cost |-> MAX_U256 - 1, logs |-> <<>>]}

system_contract_dispatch(acc, buf, tx) ==
    IF tx.action \in SystemContracts
    THEN {[accounts |-> acc,
           logbuf |-> buf \o o.logs,
           resp |-> [exit_reason |-> o.exit, remain_gas |-> 0,
                     gas_used |-> tx.gas_limit, fee_cost |-> o.fee_cost,
                     logs |-> <<>>, code_address |-> <<>>, removed |-> FALSE]] :
            o \in SysOutcomes(tx)}
    ELSE {}

(* system_contract_dispatch(..).unwrap_or_else(|| evm_exec(..)) *)
Dispatch(acc, buf, gp, tx) ==
    IF tx.action \in SystemContracts
    THEN system_contract_dispatch(acc, buf, tx)
    ELSE {evm_exec(acc, buf, gp, tx, o) : o \in EvmRun(Prepay(acc, gp, tx), tx)}

(***************************************************************************)
(* AxonExecutor::exec.  pc follows the body of exec; "panic" is the abort  *)
(* of `account.balance += i.amount`, the one unchecked U256 addition whose *)
(* operands are free (the policy chooses the amount).  The two other       *)
(* unchecked additions stay in range here: the gas total of a block is at  *)
(* most MAX_U64 (gas_used <= gas_limit, block gas limit), and a sender's   *)
(* nonce, which grows by one per transaction, never nears U256::MAX.       *)
(* events, allocCalls and credits record what exec did.                    *)
(***************************************************************************)
RLP_NULL == [trie |-> <<>>]

from_receipts_root(receipts) == [trie |-> receipts]

Event(op, i, a) == [op |-> op, i |-> i, a |-> a]

(* The transactions a block is drawn from. *)
TxPool ==
    {Tx("a1", 0, 1, 0, 1, "a2", 0),
     Tx("a1", 2, 0, 1, 1, "Create", 0),
     Tx("a2", 1, 1, 0, 1, "sc", 0)}

BlockTxs == SeqsUpTo(TxPool, MaxTxs)

InitAccounts ==
    [a \in Addr |-> IF a = "a1" THEN [balance |-> MAX_U64, nonce |-> 0]
                    ELSE [balance |-> MAX_U256 - 1, nonce |-> 0]]

(* What a fee-allocation policy may return for (fee, proposer). *)
Inlets(fee_collect, proposer) ==
    {[address |-> proposer, amount |-> fee_collect],
     [address |-> "a2", amount |-> 0],
     [address |-> "a2", amount |-> 1],
     [address |-> "a1", amount |-> MAX_U256]}

Allocations(fee_collect, proposer) == SeqsUpTo(Inlets(fee_collect, proposer), MaxInlets)

fee_add_wrapping(total, fee_cost) == (total + fee_cost) % (MAX_U256 + 1)

fee_add(total, fee_cost) == unwrap_or(checked_add(total, fee_cost), MAX_U256)

push_front(list, x) == <<x>> \o list

push(list, x) == Append(list, x)

allocates_always(number) == TRUE

allocates(number) == number # 0

credits_inlet_always(i) == TRUE

credits_inlet(i) == i.amount # 0

receipt_root(receipts) ==
    IF receipts = <<>> THEN RLP_NULL ELSE from_receipts_root(receipts)

idleCall == [op |-> "none"]

Init ==
    /\ pc = "start"
    /\ NoThreads
    /\ txs \in BlockTxs
    /\ block_number \in {0, 1}
    /\ accounts = InitAccounts
    /\ logbuf = <<>>
    /\ gas_price_cur = 0
    /\ origin = Proposer
    /\ idx = 1
    /\ res = <<>>
    /\ encode_receipts = <<>>
    /\ gas = 0
    /\ fee = 0
    /\ alloc = <<>>
    /\ allocCalls = <<>>
    /\ credits = <<>>
    /\ events = <<>>
    /\ committed = <<>>
    /\ ret = <<>>
    /\ fnCall = idleCall

(* lines 134-141: locals, precompile set, cached roots, config *)
Start ==
    /\ pc = "start"
    /\ pc' = "before"
    /\ idx' = 1
    /\ res' = <<>>
    /\ encode_receipts' = <<>>
    /\ gas' = 0
    /\ fee' = 0
    /\ UNCHANGED <<txs, block_number, accounts, logbuf, gas_price_cur, origin,
                   alloc, allocCalls, credits, events, committed, ret, fnCall>>
    /\ UNCHANGED concVars

(* The hook is handed the adapter and may leave a log in its buffer; blocks
   of more than MaxHookTxs transactions are run with a silent hook. *)
MaxHookTxs == 1

HookLog == Log("sc", <<72>>)

HookLogs(block) ==
    {<<>>} \cup (IF Len(block) <= MaxHookTxs THEN {<<HookLog>>} ELSE {})

BeforeBlockHook ==
    /\ pc = "before"
    /\ \E l \in HookLogs(txs) : logbuf' = logbuf \o l
    /\ events' = Append(events, Event("before_block_hook", 0, ""))
    /\ pc' = "loop"
    /\ UNCHANGED <<txs, idx, block_number, accounts, gas_price_cur, origin,
                   res, encode_receipts, gas, fee, alloc, allocCalls, credits,
                   committed, ret, fnCall>>
    /\ UNCHANGED concVars

(* one iteration of the loop over txs *)
ExecTx ==
    /\ pc = "loop"
    /\ idx <= Len(txs)
    /\ LET tx == txs[idx]
           gp == gas_price(tx)
       IN \E out \in Dispatch(accounts, logbuf, gp, tx) :
            LET r == [out.resp EXCEPT !.logs = out.logbuf]
                bloom == logs_bloom(r.logs)
                receipt == encode_receipt(tx, r, bloom)
            IN /\ gas_price_cur' = gp
               /\ origin' = tx.sender
               /\ accounts' = out.accounts
               /\ logbuf' = <<>>
               /\ gas' = gas + r.gas_used
               /\ fee' = fee_add(fee, r.fee_cost)
               /\ encode_receipts' = push(encode_receipts, receipt)
               /\ res' = Append(res, r)
               /\ events' = Append(events, Event("tx", idx, tx.sender))
    /\ idx' = idx + 1
    /\ UNCHANGED <<pc, txs, block_number, alloc, allocCalls, credits, committed,
                   ret, fnCall>>
    /\ UNCHANGED concVars

(* line 167 and the call of the policy *)
Allocate ==
    /\ pc = "loop"
    /\ idx > Len(txs)
    /\ allocates(block_number)
    /\ \E al \in Allocations(fee, origin) :
         /\ alloc' = al
         /\ allocCalls' = Append(allocCalls,
                [block_number |-> block_number, fee |-> fee,
                 proposer |-> origin, inlets |-> al])
    /\ events' = Append(events, Event("allocate", 0, origin))
    /\ pc' = "fee"
    /\ UNCHANGED <<txs, idx, block_number, accounts, logbuf, gas_price_cur, origin,
                   res, encode_receipts, gas, fee, credits, committed, ret, fnCall>>
    /\ UNCHANGED concVars

SkipAllocate ==
    /\ pc = "loop"
    /\ idx > Len(txs)
    /\ ~allocates(block_number)
    /\ pc' = "fee"
    /\ UNCHANGED <<txs, idx, block_number, accounts, logbuf, gas_price_cur, origin,
                   res, encode_receipts, gas, fee, alloc, allocCalls, credits,
                   events, committed, ret, fnCall>>
    /\ UNCHANGED concVars

(* lines 173-179, one FeeInlet; U256 += aborts on overflow *)
Credit ==
    /\ pc = "fee"
    /\ alloc # <<>>
    /\ LET i == Head(alloc)
           old == accounts[i.address].balance
       IN IF credits_inlet(i)
          THEN IF old + i.amount > MAX_U256
               THEN /\ pc' = "panic"
                    /\ UNCHANGED <<accounts, credits, events>>
               ELSE /\ accounts' = [accounts EXCEPT ![i.address].balance = old + i.amount]
                    /\ credits' = Append(credits,
                          [address |-> i.address, amount |-> i.amount,
                           old |-> old, new |-> old + i.amount])
                    /\ events' = Append(events, Event("credit", 0, i.address))
                    /\ UNCHANGED pc
          ELSE UNCHANGED <<pc, accounts, credits, events>>
    /\ alloc' = Tail(alloc)
    /\ UNCHANGED <<txs, idx, block_number, logbuf, gas_price_cur, origin, res,
                   encode_receipts, gas, fee, allocCalls, committed, ret, fnCall>>
    /\ UNCHANGED concVars

AfterBlockHook ==
    /\ pc = "fee"
    /\ alloc = <<>>
    /\ events' = Append(events, Event("after_block_hook", 0, ""))
    /\ pc' = "commit"
    /\ UNCHANGED <<txs, idx, block_number, accounts, logbuf, gas_price_cur, origin,
                   res, encode_receipts, gas, fee, alloc, allocCalls, credits,
                   committed, ret, fnCall>>
    /\ UNCHANGED concVars

Commit ==
    /\ pc = "commit"
    /\ committed' = <<StateRoot(accounts)>>
    /\ events' = Append(events, Event("commit", 0, ""))
    /\ pc' = "ret"
    /\ UNCHANGED <<txs, idx, block_number, accounts, logbuf, gas_price_cur, origin,
                   res, encode_receipts, gas, fee, alloc, allocCalls, credits,
                   ret, fnCall>>
    /\ UNCHANGED concVars

(* lines 190-205 *)
Return ==
    /\ pc = "ret"
    /\ ret' = <<[state_root |-> committed[1],
                 receipt_root |-> receipt_root(encode_receipts),
                 gas_used |-> gas,
                 tx_resp |-> res]>>
    /\ pc' = "done"
    /\ UNCHANGED <<txs, idx, block_number, accounts, logbuf, gas_price_cur, origin,
                   res, encode_receipts, gas, fee, alloc, allocCalls, credits,
                   events, committed, fnCall>>
    /\ UNCHANGED concVars

Next ==
    \/ Start
    \/ BeforeBlockHook
    \/ ExecTx
    \/ Allocate
    \/ SkipAllocate
    \/ Credit
    \/ AfterBlockHook
    \/ Commit
    \/ Return

Spec == Init /\ [][Next]_vars

(***************************************************************************)
(* Properties of exec.                                                     *)
(***************************************************************************)
RECURSIVE SumFees(_)
SumFees(rs) == IF rs = <<>> THEN 0 ELSE Head(rs).fee_cost + SumFees(Tail(rs))

RECURSIVE NonZero(_)
NonZero(inlets) ==
    IF inlets = <<>> THEN <<>>
    ELSE IF Head(inlets).amount # 0 THEN <<Head(inlets)>> \o NonZero(Tail(inlets))
    ELSE NonZero(Tail(inlets))

Count(op) == Cardinality({k \in 1..Len(events) : events[k].op = op})

Ended == pc \in {"done", "panic"}

FeeEvents ==
    IF allocCalls = <<>> THEN <<>>
    ELSE <<Event("allocate", 0, allocCalls[1].proposer)>>
         \o [k \in 1..Len(NonZero(allocCalls[1].inlets)) |->
                Event("credit", 0, NonZero(allocCalls[1].inlets)[k].address)]

CanonicalEvents ==
    <<Event("before_block_hook", 0, "")>>
    \o [i \in 1..Len(txs) |-> Event("tx", i, txs[i].sender)]
    \o FeeEvents
    \o <<Event("after_block_hook", 0, ""), Event("commit", 0, "")>>

(* C1: every run of exec performs before-block hook, the transactions in
   list order, fee distribution (if any), after-block hook and exactly one
   commit, in this order, and returns the root that commit produced. *)
C1_OrderInEveryRun ==
    Ended =>
        /\ events = CanonicalEvents
        /\ Count("commit") = 1
        /\ ret # <<>>
        /\ ret[1].state_root = committed[1]

(* C3: a block holding a transaction with a non-success exit is still
   executed to the end: exec returns one response per transaction, in order,
   and fee distribution, after-block hook and commit take place. *)
C3_NonSuccessNeverAborts ==
    (Ended /\ \E i \in 1..Len(res) : res[i].exit_reason # "Succeed") =>
        /\ pc = "done"
        /\ Len(ret[1].tx_resp) = Len(txs)
        /\ Count("after_block_hook") = 1
        /\ Count("commit") = 1

(* C4: with block number zero the fee-allocation policy is never invoked
   and no account is credited, whatever fee was collected; with a non-zero
   block number the policy is invoked exactly once per exec. *)
C4_FeePolicyGate ==
    /\ block_number = 0 => (allocCalls = <<>> /\ credits = <<>> /\ Count("allocate") = 0)
    /\ Len(allocCalls) <= 1
    /\ (block_number # 0 /\ pc \in {"fee", "commit", "ret", "done", "panic"})
          => Len(allocCalls) = 1

C4_Witness == block_number = 0 /\ fee > 0 /\ pc = "done"

(* C5 as stated: exec over an empty transaction list credits no account,
   for any block number and policy, and invokes before-block hook,
   after-block hook and commit once each.  Runs that abort are left out, so
   that only a credit refutes it. *)
C5_EmptyBlockNoCredit ==
    (txs = <<>> /\ pc # "panic") =>
        /\ credits = <<>>
        /\ pc = "done" => (Count("before_block_hook") = 1
                           /\ Count("after_block_hook") = 1
                           /\ Count("commit") = 1)

(* C5 amended: over an empty transaction list exec credits no account when
   the block number is zero and then always completes; with a non-zero block
   number the policy is invoked once with total fee 0 and exactly its
   non-zero amounts are credited, in order; an exec that returns has invoked
   before-block hook, after-block hook and commit once each. *)
C5_EmptyBlockAmended ==
    txs = <<>> =>
        /\ fee = 0
        /\ \A k \in 1..Len(allocCalls) : allocCalls[k].fee = 0
        /\ block_number = 0 => (credits = <<>> /\ allocCalls = <<>> /\ pc # "panic")
        /\ allocCalls # <<>> =>
              /\ Len(credits) <= Len(NonZero(allocCalls[1].inlets))
              /\ \A k \in 1..Len(credits) :
                    /\ credits[k].address = NonZero(allocCalls[1].inlets)[k].address
                    /\ credits[k].amount = NonZero(allocCalls[1].inlets)[k].amount
              /\ pc \in {"commit", "ret", "done"}
                    => Len(credits) = Len(NonZero(allocCalls[1].inlets))
        /\ pc = "done" => (Count("before_block_hook") = 1 /\ Count("after_block_hook") = 1
                           /\ Count("commit") = 1)

C5_Witness == txs = <<>> /\ block_number # 0 /\ credits # <<>> /\ pc = "done"

(* C6: the receipt root is RLP_NULL exactly for an empty transaction list;
   otherwise there is one encoded receipt per transaction, in transaction
   order, and the root is taken over that ordered list. *)
C6_ReceiptRoot ==
    pc = "done" =>
        LET r == ret[1]
            expected == [i \in 1..Len(txs) |->
                            encode_receipt(txs[i], r.tx_resp[i],
                                           logs_bloom(r.tx_resp[i].logs))]
        IN /\ (r.receipt_root = RLP_NULL) <=> (txs = <<>>)
           /\ Len(r.tx_resp) = Len(txs)
           /\ encode_receipts = expected
           /\ txs # <<>> => r.receipt_root = from_receipts_root(expected)

C6_Witness ==
    /\ pc = "done"
    /\ Len(txs) >= 2
    /\ encode_receipts[1] # encode_receipts[2]
    /\ ret[1].receipt_root = from_receipts_root(encode_receipts)

(* C7: the running fee total, and the total passed to the policy, is the
   saturating sum min(MAX_U256, sum of fee_cost); it never wraps. *)
C7_FeeSaturates ==
    /\ fee = Min(MAX_U256, SumFees(res))
    /\ \A k \in 1..Len(allocCalls) : allocCalls[k].fee = Min(MAX_U256, SumFees(res))

C7_Witness ==
    /\ allocCalls # <<>>
    /\ SumFees(res) > MAX_U256
    /\ allocCalls[1].fee = MAX_U256

(* C8: every credit with a non-zero amount sets the balance to
   min(MAX_U256, old + amount) and never aborts exec. *)
C8_SaturatingCredit ==
    /\ pc # "panic"
    /\ \A k \in 1..Len(credits) :
          credits[k].new = Min(MAX_U256, credits[k].old + credits[k].amount)

(***************************************************************************)
(* SpecEvm: evm_exec applied once to a drawn adapter state and             *)
(* transaction, with the gas price exec has set for it.                    *)
(***************************************************************************)
Parked(p) ==
    /\ pc = p
    /\ txs = <<>>
    /\ block_number = 0
    /\ idx = 1
    /\ origin = Proposer
    /\ res = <<>>
    /\ encode_receipts = <<>>
    /\ gas = 0
    /\ fee = 0
    /\ alloc = <<>>
    /\ allocCalls = <<>>
    /\ credits = <<>>
    /\ events = <<>>
    /\ committed = <<>>
    /\ ret = <<>>

EvmBalances == {0, 1, MAX_U64, MAX_U256 - 1, MAX_U256}

EvmAccounts ==
    {[a \in Addr |-> IF a = "a1" THEN [balance |-> b1, nonce |-> n1]
                     ELSE [balance |-> b2, nonce |-> 0]] :
        b1 \in EvmBalances, n1 \in {0, 1}, b2 \in {0, MAX_U256}}

EvmTxPool ==
    {Tx("a1", ty, gp, prio, gl, action, value) :
        ty \in {0, 2}, gp \in {0, 1, MAX_U64}, prio \in {0, MAX_U64},
        gl \in 0..MaxGas, action \in {"Create", "a1", "a2"}, value \in {0, 1}}

InitEvm ==
    /\ Parked("evm")
    /\ NoThreads
    /\ accounts \in EvmAccounts
    /\ logbuf \in {<<>>, <<Log("sc", <<>>)>>}
    /\ gas_price_cur = 0
    /\ fnCall = idleCall

EvmExec ==
    /\ pc = "evm"
    /\ fnCall.op = "none"
    /\ \E tx \in EvmTxPool :
         LET gp == gas_price(tx)
         IN \E o \in EvmRun(Prepay(accounts, gp, tx), tx) :
              LET out == evm_exec(accounts, logbuf, gp, tx, o)
              IN /\ gas_price_cur' = gp
                 /\ accounts' = out.accounts
                 /\ logbuf' = out.logbuf
                 /\ fnCall' = [op |-> "evm_exec", tx |-> tx, pre |-> accounts,
                               prebuf |-> logbuf, o |-> o, resp |-> out.resp]
    /\ UNCHANGED <<pc, txs, idx, block_number, origin, res, encode_receipts, gas,
                   fee, alloc, allocCalls, credits, events, committed, ret>>
    /\ UNCHANGED concVars

(***************************************************************************)
(* AxonExecutor::call.  The EVM runs on an overlay of the backend, which   *)
(* call borrows immutably; the overlay is dropped with the executor.  The  *)
(* zero address, the default of `from`, is one of the modelled accounts.   *)
(***************************************************************************)
H160_default == "a2"

CallTx(gas_limit, from, to, value) ==
    Tx(IF from = <<>> THEN H160_default ELSE from[1], 0, 0, 0, gas_limit,
       IF to = <<>> THEN "Create" ELSE to[1], value)

call_applies_overlay(acc, buf, com, gp, gas_limit, from, to, value, o) ==
    LET caller == IF from = <<>> THEN H160_default ELSE from[1]
    IN [accounts |-> ApplyValues(acc, o.values),
        logbuf |-> buf \o o.logs,
        committed |-> com,
        resp |-> [exit_reason |-> o.exit, remain_gas |-> o.remain_gas,
                  gas_used |-> o.used_gas,
                  fee_cost |-> unwrap_or(checked_mul(gp, o.used_gas), MAX_U256),
                  logs |-> <<>>,
                  code_address |-> IF to = <<>>
                                   THEN <<code_address(caller,
                                            ApplyValues(acc, o.values)[caller].nonce)>>
                                   ELSE <<>>,
                  removed |-> FALSE]]

call(acc, buf, com, gp, gas_limit, from, to, value, o) ==
    LET caller == IF from = <<>> THEN H160_default ELSE from[1]
        (* the executor's own state after the run *)
        state == ApplyValues(acc, o.values)
        used_gas == o.used_gas
    IN [accounts |-> acc,
        logbuf |-> buf,
        committed |-> com,
        resp |-> [exit_reason |-> o.exit, remain_gas |-> o.remain_gas,
                  gas_used |-> used_gas,
                  fee_cost |-> unwrap_or(checked_mul(gp, used_gas), MAX_U256),
                  logs |-> <<>>,
                  code_address |-> IF to = <<>>
                                   THEN <<code_address(caller, state[caller].nonce)>>
                                   ELSE <<>>,
                  removed |-> FALSE]]

CallArgs ==
    [gas_limit : 0..MaxGas, from : {<<>>, <<"a1">>},
     to : {<<>>, <<"a1">>, <<"a2">>}, value : {0, 1}]

Call ==
    /\ pc = "evm"
    /\ fnCall.op = "none"
    /\ \E a \in CallArgs :
         LET tx == CallTx(a.gas_limit, a.from, a.to, a.value)
         IN \E o \in EvmRun(accounts, tx) :
              LET out == call(accounts, logbuf, committed, gas_price_cur,
                              a.gas_limit, a.from, a.to, a.value, o)
              IN /\ accounts' = out.accounts
                 /\ logbuf' = out.logbuf
                 /\ committed' = out.committed
                 /\ fnCall' = [op |-> "call", tx |-> tx, pre |-> accounts,
                               prebuf |-> logbuf, o |-> o, resp |-> out.resp]
    /\ UNCHANGED <<pc, txs, idx, block_number, gas_price_cur, origin, res,
                   encode_receipts, gas, fee, alloc, allocCalls, credits, events, ret>>
    /\ UNCHANGED concVars

NextEvm ==
    \/ EvmExec
    \/ Call

SpecEvm == InitEvm /\ [][NextEvm]_vars

(* C2: after evm_exec the sender's nonce in the adapter is its nonce before
   the transaction plus one, for every exit and for calls and creations. *)
C2_NonceAdvancesByOne ==
    fnCall.op = "evm_exec" =>
        accounts[fnCall.tx.sender].nonce = fnCall.pre[fnCall.tx.sender].nonce + 1

C2_Witness ==
    /\ fnCall.op = "evm_exec"
    /\ fnCall.resp.exit_reason = "Fatal"
    /\ fnCall.tx.action = "Create"
    /\ fnCall.pre["a1"].nonce = 1
    /\ accounts["a1"].nonce = 2

(***************************************************************************)
(* SpecTx: the functions of the transaction model applied to drawn inputs. *)
(***************************************************************************)
CostTxs ==
    {Tx("a1", ty, gp, prio, gl, "a2", value) :
        ty \in {0, 1, 2}, gp \in {0, 1, MAX_U64}, prio \in {0, MAX_U64},
        gl \in {0, 1, MAX_U64},
        value \in {0, 1, MAX_U256 - MAX_U64 * MAX_U64, MAX_U256 - 1, MAX_U256}}

ReceiptLogs ==
    {<<>>, <<Log("a1", <<>>)>>, <<Log("a2", <<7>>), Log("sc", <<200, 1>>)>>}

(* gas_used takes the u64 values at which the integer encoding changes. *)
ReceiptResps ==
    {[exit_reason |-> e, remain_gas |-> 0, gas_used |-> g, fee_cost |-> 0,
      logs |-> l, code_address |-> <<>>, removed |-> FALSE] :
        e \in ExitReasons, g \in {0, 1, 10, 127, 128, 300, MAX_U64}, l \in ReceiptLogs}

Blooms(logs) == {logs_bloom(logs), [j \in 1..BloomLen |-> 255]}

(***************************************************************************)
(* The GetCell precompile.  A result is Ok((PrecompileOutput, gas)) or the  *)
(* failure that err!() builds.                                             *)
(***************************************************************************)
MIN_GAS == 15

gas_cost(input) ==
    LET data_word_size == (Len(input) + 31) \div 32
    IN (data_word_size * 3) + MIN_GAS

err == [ok |-> FALSE, exit_status |-> "OutOfGas", output |-> <<>>, gas |-> 0]

exec_fn_fails_at_limit(input, gas_limit) ==
    LET cost == gas_cost(input)
    IN IF gas_limit # <<>> /\ cost >= gas_limit[1]
       THEN err
       ELSE [ok |-> TRUE, exit_status |-> "Returned", output |-> input, gas |-> cost]

exec_fn(input, gas_limit) ==
    LET cost == gas_cost(input)
    IN IF gas_limit # <<>> /\ cost > gas_limit[1]
       THEN err
       ELSE [ok |-> TRUE, exit_status |-> "Returned", output |-> input, gas |-> cost]

(* inputs around the 32-byte word boundaries, limits around their costs *)
GetCellInputs == {[j \in 1..n |-> (7 * j) % 256] : n \in {0, 1, 31, 32, 33, 64, 65}}

GetCellLimits == {<<>>} \cup {<<l>> : l \in 0..(MIN_GAS + 10)}

InitTx ==
    /\ Parked("tx")
    /\ NoThreads
    /\ accounts = InitAccounts
    /\ logbuf = <<>>
    /\ gas_price_cur = 0
    /\ fnCall = idleCall

CallMayCost ==
    /\ pc = "tx"
    /\ fnCall.op = "none"
    /\ \E tx \in CostTxs :
         fnCall' = [op |-> "may_cost", tx |-> tx, out |-> may_cost(tx)]
    /\ UNCHANGED execVars
    /\ UNCHANGED concVars

CallEncodeReceipt ==
    /\ pc = "tx"
    /\ fnCall.op = "none"
    /\ \E ty \in {0, 1, 2}, r \in ReceiptResps :
         \E bloom \in Blooms(r.logs) :
            LET tx == Tx("a1", ty, 1, 0, 1, "a2", 0)
            IN fnCall' = [op |-> "encode_receipt", tx |-> tx, r |-> r,
                          bloom |-> bloom, out |-> encode_receipt(tx, r, bloom)]
    /\ UNCHANGED execVars
    /\ UNCHANGED concVars

CallGetCell ==
    /\ pc = "tx"
    /\ fnCall.op = "none"
    /\ \E input \in GetCellInputs, gas_limit \in GetCellLimits :
         fnCall' = [op |-> "exec_fn", input |-> input, gas_limit |-> gas_limit,
                    out |-> exec_fn(input, gas_limit)]
    /\ UNCHANGED execVars
    /\ UNCHANGED concVars



(***************************************************************************)
(* UnverifiedTransaction and SignedTransaction::from_unverified.  The byte *)
(* encoding of (unsigned, chain id, signature) and the digest are kept     *)
(* symbolic: distinct arguments give distinct hashes.  A Result is a       *)
(* record with kind "Ok" or "Err"; "Panic" is an abort of the call.  What  *)
(* secp256k1_recover and rlp::decode return is theirs to choose.           *)
(***************************************************************************)
SECP256K1_SIGNATURE_LEN == 65

encode(unsigned, chain_id, signature) ==
    [unsigned |-> unsigned, chain_id |-> chain_id, signature |-> signature]

Hasher_digest(bytes) == <<"digest", bytes>>

(* H256::default(), which is the digest of no encoding *)
Hash_default ==
    <<"zero", encode([type |-> 0, nonce |-> 0, gas_price |-> 0,
                      max_priority_fee_per_gas |-> 0, gas_limit |-> 0,
                      action |-> "Create", value |-> 0], <<>>, <<>>)>>

get_hash_without_chain_id(utx) ==
    Hasher_digest(encode(utx.unsigned, <<>>, utx.signature))

get_hash(utx) == Hasher_digest(encode(utx.unsigned, utx.chain_id, utx.signature))

calc_hash(utx) == [utx EXCEPT !.hash = get_hash(utx)]

check_hash(utx) ==
    LET calc == get_hash(utx)
    IN IF utx.hash # calc
       THEN [kind |-> "Err", err |-> "TxHashMismatch", origin |-> <<utx.hash>>,
             calc |-> <<calc>>]
       ELSE [kind |-> "Ok", err |-> "", origin |-> <<>>, calc |-> <<>>]

signature_hash(utx, with_chain_id) ==
    IF ~with_chain_id /\ utx.unsigned.type = 0
    THEN Hasher_digest(encode(utx.unsigned, <<>>, <<>>))
    ELSE Hasher_digest(encode(utx.unsigned, utx.chain_id, <<>>))

len(sig) == Len(sig.r) + Len(sig.s) + 1

is_eth_sig_at_least(sig) == len(sig) >= SECP256K1_SIGNATURE_LEN

is_eth_sig(sig) == len(sig) = SECP256K1_SIGNATURE_LEN

public_to_address(public) == [address_of |-> public]

Failure(kind, e) == [kind |-> kind, err |-> e, stx |-> <<>>]

(* decoded is the result of rlp::decode on r[1..]: <<>> or <<pub_key>> *)
extract_interoperation_tx_sender(sig, decoded) ==
    IF sig.r = <<>> THEN [kind |-> "Panic", err |-> "", sender |-> <<>>]
    ELSE IF sig.r[1] = 0
    THEN IF decoded = <<>>
         THEN [kind |-> "Err", err |-> "DecodeInteroperationSigR", sender |-> <<>>]
         ELSE [kind |-> "Ok", err |-> "", sender |-> <<public_to_address(decoded[1])>>]
    ELSE [kind |-> "Err", err |-> "InvalidSignatureRType", sender |-> <<>>]

(* recovered is the result of secp256k1_recover on (hash, signature bytes) *)
from_unverified(utx, recovered, decoded) ==
    IF utx.signature = <<>> THEN Failure("Err", "Unsigned")
    ELSE LET hash == signature_hash(utx, TRUE)
             sig == utx.signature[1]
         IN IF is_eth_sig(sig)
            THEN IF recovered = <<>> THEN Failure("Err", "Crypto")
                 ELSE [kind |-> "Ok", err |-> "",
                       stx |-> <<[transaction |-> calc_hash(utx),
                                  sender |-> public_to_address(recovered[1]),
                                  public |-> <<recovered[1]>>]>>]
            ELSE LET sender == extract_interoperation_tx_sender(sig, decoded)
                 IN IF sender.kind # "Ok" THEN Failure(sender.kind, sender.err)
                    ELSE [kind |-> "Ok", err |-> "",
                          stx |-> <<[transaction |-> calc_hash(utx),
                                     sender |-> sender.sender[1],
                                     public |-> <<"Public::zero">>]>>]

Fill(n, first) == [j \in 1..n |-> IF j = 1 THEN first ELSE 7]

Signatures ==
    {<<>>} \cup
    {<<[r |-> r, s |-> s, standard_v |-> v]>> :
        r \in {<<>>, Fill(1, 0), Fill(1, 1), Fill(2, 0), Fill(32, 0), Fill(32, 5),
               Fill(64, 0)},
        s \in {<<>>, Fill(32, 9)}, v \in {0, 1}}

UnsignedTxs ==
    {[type |-> ty, nonce |-> 0, gas_price |-> 1, max_priority_fee_per_gas |-> 0,
      gas_limit |-> 1, action |-> "a2", value |-> v] : ty \in {0, 2}, v \in {0}}

ChainIds == {<<>>, <<0>>, <<5>>}

(* the cached hash: the default, the right one, or the hash the transaction
   would have under another chain id *)
UnverifiedTxs ==
    UNION {{[unsigned |-> u, signature |-> sg, chain_id |-> c, hash |-> h] :
              h \in {Hash_default,
                     Hasher_digest(encode(u, c, sg)),
                     Hasher_digest(encode(u, <<7>>, sg))}} :
           u \in UnsignedTxs, sg \in Signatures, c \in ChainIds}

CallCheckHash ==
    /\ pc = "tx"
    /\ fnCall.op = "none"
    /\ \E utx \in UnverifiedTxs :
         fnCall' = [op |-> "check_hash", utx |-> utx, out |-> check_hash(utx)]
    /\ UNCHANGED execVars
    /\ UNCHANGED concVars

(* debug_assert!: with no signature a debug build aborts, a release build
   goes on *)
CallCalcHash ==
    /\ pc = "tx"
    /\ fnCall.op = "none"
    /\ \E utx \in UnverifiedTxs, debug \in BOOLEAN :
         fnCall' = [op |-> "calc_hash", utx |-> utx,
                    out |-> IF debug /\ utx.signature = <<>> THEN <<>>
                            ELSE <<calc_hash(utx)>>]
    /\ UNCHANGED execVars
    /\ UNCHANGED concVars

CallFromUnverified ==
    /\ pc = "tx"
    /\ fnCall.op = "none"
    /\ \E utx \in UnverifiedTxs, recovered \in {<<>>, <<"pk1">>},
          decoded \in {<<>>, <<"pk2">>} :
         fnCall' = [op |-> "from_unverified", utx |-> utx, recovered |-> recovered,
                    decoded |-> decoded,
                    out |-> from_unverified(utx, recovered, decoded)]
    /\ UNCHANGED execVars
    /\ UNCHANGED concVars

(***************************************************************************)
(* The recovery indicator v.  v is a 64-bit word, scaled here to           *)
(* 0..MaxChainWord.  An overflowing sum aborts a build with overflow       *)
(* checks and wraps in one without: Some(v) is <<v>>, the abort is <<>>.   *)
(***************************************************************************)
MaxChainWord == 127

add_chain_replay_protection(sig, chain_id, overflow_checks) ==
    LET sum == sig.standard_v + (IF chain_id # <<>> THEN chain_id[1] * 2 + 35 ELSE 27)
    IN IF sum <= MaxChainWord THEN <<sum>>
       ELSE IF overflow_checks THEN <<>>
       ELSE <<sum % (MaxChainWord + 1)>>

extract_standard_v_parity(v) ==
    IF v = 27 THEN <<0>>
    ELSE IF v = 28 THEN <<1>>
    ELSE IF v >= 35 THEN <<v % 2>>
    ELSE <<>>

extract_standard_v(v) ==
    IF v = 27 THEN <<0>>
    ELSE IF v = 28 THEN <<1>>
    ELSE IF v >= 35 THEN <<(v - 1) % 2>>
    ELSE <<>>

extract_chain_id(v) ==
    IF v >= 35 THEN <<(v - 35) \div 2>> ELSE <<>>

CallAddChainReplayProtection ==
    /\ pc = "tx"
    /\ fnCall.op = "none"
    /\ \E standard_v \in {0, 1}, overflow_checks \in BOOLEAN,
          chain_id \in {<<>>} \cup {<<c>> : c \in 0..MaxChainWord} :
         LET sig == [r |-> Fill(32, 5), s |-> Fill(32, 9), standard_v |-> standard_v]
             v == add_chain_replay_protection(sig, chain_id, overflow_checks)
         IN fnCall' = [op |-> "add_chain_replay_protection", sig |-> sig,
                       chain_id |-> chain_id, v |-> v,
                       standard_v |-> IF v = <<>> THEN <<>> ELSE extract_standard_v(v[1]),
                       back |-> IF v = <<>> THEN <<>> ELSE extract_chain_id(v[1])]
    /\ UNCHANGED execVars
    /\ UNCHANGED concVars

CallExtractStandardV ==
    /\ pc = "tx"
    /\ fnCall.op = "none"
    /\ \E v \in 0..MaxChainWord :
         fnCall' = [op |-> "extract_standard_v", v |-> v,
                    out |-> extract_standard_v(v), chain_id |-> extract_chain_id(v)]
    /\ UNCHANGED execVars
    /\ UNCHANGED concVars

NextTx ==
    \/ CallMayCost
    \/ CallEncodeReceipt
    \/ CallGetCell
    \/ CallCheckHash
    \/ CallCalcHash
    \/ CallFromUnverified
    \/ CallAddChainReplayProtection
    \/ CallExtractStandardV

SpecTx == InitTx /\ [][NextTx]_vars

(* Reading RLP back: the items of a concatenation of encoded items. *)
RECURSIVE FromBe(_)
FromBe(b) == IF b = <<>> THEN 0 ELSE FromBe(SubSeq(b, 1, Len(b) - 1)) * 256 + b[Len(b)]

RlpHeader(b) ==
    LET f == b[1]
    IN IF f < 128 THEN [list |-> FALSE, off |-> 0, len |-> 1]
       ELSE IF f < 184 THEN [list |-> FALSE, off |-> 1, len |-> f - 128]
       ELSE IF f < 192
       THEN [list |-> FALSE, off |-> 1 + (f - 183),
             len |-> FromBe(SubSeq(b, 2, 1 + (f - 183)))]
       ELSE IF f < 248 THEN [list |-> TRUE, off |-> 1, len |-> f - 192]
       ELSE [list |-> TRUE, off |-> 1 + (f - 247),
             len |-> FromBe(SubSeq(b, 2, 1 + (f - 247)))]

RECURSIVE RlpItems(_)
RlpItems(b) ==
    IF b = <<>> THEN <<>>
    ELSE LET h == RlpHeader(b)
         IN <<[list |-> h.list, payload |-> SubSeq(b, h.off + 1, h.off + h.len)]>>
            \o RlpItems(SubSeq(b, h.off + h.len + 1, Len(b)))

(* C9: may_cost returns gas_price * gas_limit saturating-added to value, and
   fails with PrepayGasIsTooLarge when the product does not fit in a U256. *)
C9_MayCost ==
    fnCall.op = "may_cost" =>
        LET tx == fnCall.tx
            price == IF tx.type = 2
                     THEN Max(tx.gas_price, tx.max_priority_fee_per_gas)
                     ELSE tx.gas_price
            product == price * tx.gas_limit
        IN fnCall.out = IF product > MAX_U256 THEN <<>>
                        ELSE <<Min(MAX_U256, product + tx.value)>>

C9_Witness ==
    /\ fnCall.op = "may_cost"
    /\ gas_price(fnCall.tx) * fnCall.tx.gas_limit > 0
    /\ gas_price(fnCall.tx) * fnCall.tx.gas_limit + fnCall.tx.value > MAX_U256
    /\ fnCall.out = <<MAX_U256>>

(* C10: encode_receipt returns, for type 1 and 2, one byte equal to the type
   followed by the body, and for type 0 the body alone; the body is the RLP
   list (status, gas used, logs bloom, logs), the same for all three types,
   with status 1 exactly for a success. *)
C10_ReceiptFraming ==
    fnCall.op = "encode_receipt" =>
        LET tx == fnCall.tx
            r == fnCall.r
            out == fnCall.out
            typed == tx.type \in {1, 2}
            body == IF typed THEN Tail(out) ELSE out
            top == RlpItems(body)
            fields == RlpItems(top[1].payload)
        IN /\ typed => (out[1] = tx.type /\ Len(out) = 1 + Len(body))
           /\ body = encode_receipt([tx EXCEPT !.type = 0], r, fnCall.bloom)
           /\ Len(top) = 1
           /\ top[1].list
           /\ Len(fields) = 4
           /\ ~fields[1].list
           /\ FromBe(fields[1].payload) = (IF r.exit_reason = "Succeed" THEN 1 ELSE 0)
           /\ ~fields[2].list
           /\ FromBe(fields[2].payload) = r.gas_used
           /\ ~fields[3].list
           /\ fields[3].payload = fnCall.bloom
           /\ fields[4].list
           /\ Len(RlpItems(fields[4].payload)) = Len(r.logs)

C10_Witness ==
    /\ fnCall.op = "encode_receipt"
    /\ fnCall.tx.type = 2
    /\ fnCall.r.exit_reason = "Revert"
    /\ Len(fnCall.r.logs) = 2
    /\ fnCall.out[1] = 2

(***************************************************************************)
(* The receipts of a block read back, under Spec.                          *)
(***************************************************************************)
RECURSIVE SumGas(_)
SumGas(rs) == IF rs = <<>> THEN 0 ELSE rs[1].gas_used + SumGas(Tail(rs))

ReceiptGasField(tx, receipt) ==
    LET body == IF type_(tx) \in {1, 2} THEN Tail(receipt) ELSE receipt
    IN FromBe(RlpItems(RlpItems(body)[1].payload)[2].payload)

(* C11: the gas field of the i-th receipt is the cumulative gas used by
   transactions 1..i of the block, so the fields never decrease along the
   block and the last one equals the gas_used of the returned ExecResp. *)
C11_CumulativeGas ==
    pc = "done" =>
        /\ \A i \in 1..Len(encode_receipts) :
              ReceiptGasField(txs[i], encode_receipts[i]) = SumGas(SubSeq(res, 1, i))
        /\ \A i \in 1..(Len(encode_receipts) - 1) :
              ReceiptGasField(txs[i], encode_receipts[i])
                  <= ReceiptGasField(txs[i + 1], encode_receipts[i + 1])
        /\ (txs # <<>> =>
              ReceiptGasField(txs[Len(txs)], encode_receipts[Len(txs)]) = ret[1].gas_used)

(* C12: evm_exec merges the EVM's state diff and logs into the adapter only
   on a success exit; after a non-success exit the adapter differs from its
   state before the call only in the sender's account, and the log buffer is
   as it was. *)
C12_MergeOnlyOnSuccess ==
    fnCall.op = "evm_exec" =>
        LET sender == fnCall.tx.sender
            o == fnCall.o
        IN IF is_succeed(o.exit)
           THEN /\ \A a \in Addr \ {sender} :
                     accounts[a] = IF a \in DOMAIN o.values THEN o.values[a]
                                   ELSE fnCall.pre[a]
                /\ logbuf = fnCall.prebuf \o o.logs
           ELSE /\ \A a \in Addr \ {sender} : accounts[a] = fnCall.pre[a]
                /\ logbuf = fnCall.prebuf

C12_Witness ==
    /\ fnCall.op = "evm_exec"
    /\ fnCall.o.exit = "Revert"
    /\ "a2" \in DOMAIN fnCall.o.values
    /\ fnCall.o.values["a2"] # fnCall.pre["a2"]
    /\ fnCall.o.logs # <<>>
    /\ accounts["a2"] = fnCall.pre["a2"]
    /\ accounts["a1"] # fnCall.pre["a1"]
    /\ logbuf = fnCall.prebuf

(* C19: evm_exec settles gas in two saturating steps and always returns a
   response: the balance the EVM sees is max(0, B - gas_price * gas_limit),
   and the balance left in the adapter is the balance read back after the
   run plus remaining_gas * gas_price, clamped at MAX_U256.  For a
   non-success exit that is
   min(MAX_U256, max(0, B - gas_price * gas_limit) + remaining_gas * gas_price). *)
C19_GasSettlement ==
    fnCall.op = "evm_exec" =>
        LET tx == fnCall.tx
            sender == tx.sender
            o == fnCall.o
            B == fnCall.pre[sender].balance
            price == IF tx.type = 2
                     THEN Max(tx.gas_price, tx.max_priority_fee_per_gas)
                     ELSE tx.gas_price
            debited == Max(0, B - price * tx.gas_limit)
            readBack == IF is_succeed(o.exit) /\ sender \in DOMAIN o.values
                        THEN o.values[sender].balance ELSE debited
        IN /\ accounts[sender].balance
                  = Min(MAX_U256, readBack + fnCall.resp.remain_gas * price)
           /\ fnCall.resp.exit_reason = o.exit

C19_Witness ==
    /\ fnCall.op = "evm_exec"
    /\ fnCall.o.exit = "Error"
    /\ fnCall.pre["a1"].balance = 1
    /\ gas_price(fnCall.tx) * fnCall.tx.gas_limit = MAX_U64
    /\ fnCall.resp.remain_gas = 1
    /\ accounts["a1"].balance = MAX_U64

(* C20: for a transaction whose EVM exit is not a success, the sender's
   balance after evm_exec is never greater than before it, also when the
   balance before is smaller than gas_price * gas_limit. *)
C20_NeverCreditsSender ==
    (fnCall.op = "evm_exec" /\ ~is_succeed(fnCall.o.exit)) =>
        accounts[fnCall.tx.sender].balance <= fnCall.pre[fnCall.tx.sender].balance

(* the least number of 32-byte words that hold n bytes *)
WordsFor(n) == CHOOSE k \in 0..n : 32 * k >= n /\ (k = 0 \/ 32 * (k - 1) < n)

(* C18: the GetCell precompile costs 15 + 3 * ceil(inputLen / 32); exec_fn
   returns the input unchanged with status Returned and gas used equal to
   the cost when there is no limit or the limit is at least the cost, and
   the gas-exhaustion failure exactly when a limit is below the cost. *)
C18_GetCell ==
    fnCall.op = "exec_fn" =>
        LET cost == 15 + 3 * WordsFor(Len(fnCall.input))
            limit == fnCall.gas_limit
        IN IF limit # <<>> /\ limit[1] < cost
           THEN /\ ~fnCall.out.ok
                /\ fnCall.out.exit_status = "OutOfGas"
           ELSE /\ fnCall.out.ok
                /\ fnCall.out.exit_status = "Returned"
                /\ fnCall.out.output = fnCall.input
                /\ fnCall.out.gas = cost

C18_Witness ==
    /\ fnCall.op = "exec_fn"
    /\ Len(fnCall.input) = 33
    /\ fnCall.gas_limit = <<21>>
    /\ fnCall.out.ok
    /\ fnCall.out.gas = 21

(* C13: call never modifies the backend's accounts or log buffer and never
   commits, whatever the exit of the EVM and whatever the EVM wrote to its
   own overlay; its only outputs are the fields of the returned TxResp. *)
C13_CallIsReadOnly ==
    fnCall.op = "call" =>
        /\ accounts = fnCall.pre
        /\ logbuf = fnCall.prebuf
        /\ committed = <<>>

C13_Witness ==
    /\ fnCall.op = "call"
    /\ fnCall.o.exit = "Succeed"
    /\ ApplyValues(fnCall.pre, fnCall.o.values) # fnCall.pre
    /\ fnCall.o.logs # <<>>
    /\ accounts = fnCall.pre
    /\ logbuf = fnCall.prebuf

(***************************************************************************)
(* SpecConc: call and exec entered on separate threads.  Each entry caches *)
(* the two roots of its backend in the thread-local cells, resolves the    *)
(* configuration (enable_hardfork, then the metadata root when the         *)
(* hardfork is enabled) and runs, its system contracts reading the cells.  *)
(* HARDFORK_INFO is an ArcSwap: a pointer to an immutable snapshot; load   *)
(* returns a guard on the snapshot current at that moment, store installs  *)
(* a new snapshot in one step.                                             *)
(***************************************************************************)
MaxSwaps == 1

Threads == {"t1", "t2"}

H256Len == 32

H256_default == [j \in 1..H256Len |-> 0]

HardforkName == [None |-> 0, Andromeda |-> 1]

RECURSIVE BitAnd(_, _)
BitAnd(a, b) ==
    IF a = 0 \/ b = 0 THEN 0
    ELSE (a % 2) * (b % 2) + 2 * BitAnd(a \div 2, b \div 2)

H256And(x, y) == [j \in 1..H256Len |-> BitAnd(x[j], y[j])]

Reverse(b) == [j \in 1..Len(b) |-> b[Len(b) + 1 - j]]

(* u64::to_be on the eight big-endian bytes of the value: the identity on a
   big-endian target, the byte swap on a little-endian one *)
to_be(bytes, little_endian) == IF little_endian THEN Reverse(bytes) ELSE bytes

from_low_u64_be(bytes) == [j \in 1..(H256Len - 8) |-> 0] \o bytes

enable_flag(name, little_endian) ==
    from_low_u64_be(to_be(BeBytesN(name, 8), little_endian))

(* the consensus configuration the metadata contract holds at a root *)
get_consensus_config(root) == [max_contract_limit |-> 100 + root]

(* Config::london().create_contract_limit, Some(0x6000) *)
LONDON_CREATE_CONTRACT_LIMIT == 24576

config_always_london(enabled, metadata_root) ==
    [create_contract_limit |-> <<LONDON_CREATE_CONTRACT_LIMIT>>, estimate |-> FALSE]

(* config, given the result of enable_hardfork(Andromeda) and the content of
   CURRENT_METADATA_ROOT *)
config(enabled, metadata_root) ==
    LET create_contract_limit ==
            IF enabled
            THEN <<get_consensus_config(metadata_root).max_contract_limit>>
            ELSE <<LONDON_CREATE_CONTRACT_LIMIT>>
    IN [create_contract_limit |-> create_contract_limit, estimate |-> FALSE]

(* thread_local!: the cell a thread reaches is its own *)
local_key_shared(t) == "t1"

local_key(t) == t

load(info) == info.ptr

store(info, snapshot) ==
    [ptr |-> Len(info.heap) + 1, heap |-> Append(info.heap, snapshot)]

deref_latest(info, guard) == info.heap[info.ptr]

deref(info, guard) == info.heap[guard]

Backends ==
    {[header_cell_root |-> 1, metadata_root |-> 3],
     [header_cell_root |-> 2, metadata_root |-> 4]}

HfSnapshots ==
    {H256_default, enable_flag(HardforkName.Andromeda, TRUE),
     enable_flag(HardforkName.Andromeda, FALSE)}

idleThread(le) ==
    [pc |-> "idle", op |-> "none", le |-> le, backend |-> <<>>, guard |-> 0,
     at_load |-> <<>>, evaluated |-> <<>>, enabled |-> FALSE,
     config_root |-> <<>>, seen |-> <<>>, config |-> <<>>, storage |-> 0,
     used |-> <<>>, trace |-> <<>>]

InitConc ==
    /\ Parked("conc")
    /\ accounts = InitAccounts
    /\ logbuf = <<>>
    /\ gas_price_cur = 0
    /\ fnCall = idleCall
    /\ \E le \in BOOLEAN : threads = [t \in Threads |-> idleThread(le)]
    /\ CURRENT_HEADER_CELL_ROOT = [t \in Threads |-> 0]
    /\ CURRENT_METADATA_ROOT = [t \in Threads |-> 0]
    /\ \E s \in HfSnapshots : HARDFORK_INFO = [ptr |-> 1, heap |-> <<s>>]

(* call or exec is entered on thread t with its backend *)
Enter(t) ==
    /\ pc = "conc"
    /\ threads[t].pc = "idle"
    /\ \E op \in {"call", "exec"}, b \in Backends :
         threads' = [threads EXCEPT ![t] =
                        [idleThread(@.le) EXCEPT !.pc = "init", !.op = op, !.backend = b,
                                                 !.storage = b.metadata_root]]
    /\ UNCHANGED <<CURRENT_HEADER_CELL_ROOT, CURRENT_METADATA_ROOT, HARDFORK_INFO>>
    /\ UNCHANGED <<execVars, fnCall>>

init_local_system_contract_roots(t) ==
    /\ pc = "conc"
    /\ threads[t].pc = "init"
    /\ CURRENT_HEADER_CELL_ROOT' =
          [CURRENT_HEADER_CELL_ROOT EXCEPT
              ![local_key(t)] = threads[t].backend.header_cell_root]
    /\ CURRENT_METADATA_ROOT' =
          [CURRENT_METADATA_ROOT EXCEPT
              ![local_key(t)] = threads[t].backend.metadata_root]
    /\ threads' = [threads EXCEPT ![t].pc = "load",
                                  ![t].trace = Append(@, "roots")]
    /\ UNCHANGED HARDFORK_INFO
    /\ UNCHANGED <<execVars, fnCall>>

(* enable_hardfork, line 499: HARDFORK_INFO.load() *)
HardforkLoad(t) ==
    /\ pc = "conc"
    /\ threads[t].pc = "load"
    /\ threads' = [threads EXCEPT ![t].pc = "eval",
                                  ![t].guard = load(HARDFORK_INFO),
                                  ![t].at_load = HARDFORK_INFO.heap[HARDFORK_INFO.ptr]]
    /\ UNCHANGED <<CURRENT_HEADER_CELL_ROOT, CURRENT_METADATA_ROOT, HARDFORK_INFO>>
    /\ UNCHANGED <<execVars, fnCall>>

(* enable_hardfork, lines 500-502, through the guard *)
HardforkEval(t) ==
    /\ pc = "conc"
    /\ threads[t].pc = "eval"
    /\ LET latest_hardfork_info == deref(HARDFORK_INFO, threads[t].guard)
           flag == enable_flag(HardforkName.Andromeda, threads[t].le)
       IN threads' = [threads EXCEPT
                         ![t].pc = "config",
                         ![t].evaluated = latest_hardfork_info,
                         ![t].enabled = (H256And(latest_hardfork_info, flag) = flag)]
    /\ UNCHANGED <<CURRENT_HEADER_CELL_ROOT, CURRENT_METADATA_ROOT, HARDFORK_INFO>>
    /\ UNCHANGED <<execVars, fnCall>>

(* config: the metadata root is read when the hardfork is enabled *)
ConfigRead(t) ==
    /\ pc = "conc"
    /\ threads[t].pc = "config"
    /\ threads' = [threads EXCEPT
                      ![t].pc = "run",
                      ![t].config_root = IF threads[t].enabled
                                         THEN <<CURRENT_METADATA_ROOT[local_key(t)]>>
                                         ELSE <<>>,
                      ![t].config =
                          LET c == config(threads[t].enabled,
                                          CURRENT_METADATA_ROOT[local_key(t)])
                          IN <<IF threads[t].op = "call"
                               THEN [c EXCEPT !.estimate = TRUE] ELSE c>>,
                      ![t].trace = Append(@, "config")]
    /\ UNCHANGED <<CURRENT_HEADER_CELL_ROOT, CURRENT_METADATA_ROOT, HARDFORK_INFO>>
    /\ UNCHANGED <<execVars, fnCall>>

(* the system contracts of the running call read both cells *)
DispatchRead(t) ==
    /\ pc = "conc"
    /\ threads[t].pc = "run"
    /\ threads' = [threads EXCEPT
                      ![t].pc = "done",
                      ![t].seen = <<CURRENT_HEADER_CELL_ROOT[local_key(t)],
                                    CURRENT_METADATA_ROOT[local_key(t)]>>]
    /\ UNCHANGED <<CURRENT_HEADER_CELL_ROOT, CURRENT_METADATA_ROOT, HARDFORK_INFO>>
    /\ UNCHANGED <<execVars, fnCall>>

(* another part of the process installs a new snapshot *)
Swap ==
    /\ pc = "conc"
    /\ Len(HARDFORK_INFO.heap) <= MaxSwaps
    /\ \E s \in HfSnapshots \ {HARDFORK_INFO.heap[HARDFORK_INFO.ptr]} :
         HARDFORK_INFO' = store(HARDFORK_INFO, s)
    /\ UNCHANGED <<threads, CURRENT_HEADER_CELL_ROOT, CURRENT_METADATA_ROOT>>
    /\ UNCHANGED <<execVars, fnCall>>

NextConc ==
    \/ \E t \in Threads : Enter(t)
    \/ \E t \in Threads : init_local_system_contract_roots(t)
    \/ \E t \in Threads : HardforkLoad(t)
    \/ \E t \in Threads : HardforkEval(t)
    \/ \E t \in Threads : ConfigRead(t)
    \/ \E t \in Threads : DispatchRead(t)
    \/ Swap

SpecConc == InitConc /\ [][NextConc]_vars

(* C14: when call and exec run at once on separate threads, each reads the
   header-cell and metadata roots it cached itself at its own start, never
   the roots the other one wrote. *)
C14_OwnRoots ==
    \A t \in Threads :
        LET th == threads[t]
        IN /\ (th.pc \in {"run", "done"} /\ th.enabled) =>
                 th.config_root = <<th.backend.metadata_root>>
           /\ th.pc = "done" =>
                 th.seen = <<th.backend.header_cell_root, th.backend.metadata_root>>

C14_Witness ==
    /\ threads["t1"].pc = "done"
    /\ threads["t1"].enabled
    /\ threads["t2"].pc \in {"load", "eval", "config", "run", "done"}
    /\ threads["t1"].op # threads["t2"].op
    /\ threads["t1"].backend # threads["t2"].backend
    /\ CURRENT_METADATA_ROOT["t1"] # CURRENT_METADATA_ROOT["t2"]
    /\ threads["t1"].seen = <<CURRENT_HEADER_CELL_ROOT["t1"], CURRENT_METADATA_ROOT["t1"]>>

(* C15: under concurrent swaps of the hardfork snapshot, enable_hardfork
   tests the bit against one whole snapshot installed by a completed swap,
   the one current when it loaded, never a mixture of two snapshots. *)
C15_WholeSnapshot ==
    \A t \in Threads :
        LET th == threads[t]
        IN th.pc \in {"config", "run", "done"} =>
              /\ th.evaluated = th.at_load
              /\ \E k \in 1..Len(HARDFORK_INFO.heap) : th.evaluated = HARDFORK_INFO.heap[k]
              /\ th.enabled =
                    (\A j \in 1..H256Len :
                        BitAnd(th.evaluated[j],
                               enable_flag(HardforkName.Andromeda, th.le)[j])
                            = enable_flag(HardforkName.Andromeda, th.le)[j])

C15_Witness ==
    /\ threads["t1"].pc = "config"
    /\ threads["t1"].enabled
    /\ Len(HARDFORK_INFO.heap) = 2
    /\ threads["t1"].guard = 1
    /\ HARDFORK_INFO.ptr = 2
    /\ threads["t1"].evaluated = HARDFORK_INFO.heap[1]
    /\ threads["t1"].evaluated # HARDFORK_INFO.heap[2]

(***************************************************************************)
(* Claims on the hash and the recovery of a transaction, under SpecTx.     *)
(***************************************************************************)
(* the transactions that differ from utx in exactly one field *)
SingleFieldChanges(utx) ==
    {[utx EXCEPT !.unsigned = u] : u \in UnsignedTxs \ {utx.unsigned}}
    \cup {[utx EXCEPT !.chain_id = c] : c \in ChainIds \ {utx.chain_id}}
    \cup {[utx EXCEPT !.signature = sg] : sg \in Signatures \ {utx.signature}}
    \cup {[utx EXCEPT !.hash = h] :
            h \in {Hash_default,
                   Hasher_digest(encode(utx.unsigned, <<7>>, utx.signature))} \ {utx.hash}}

HashOf(utx) ==
    <<"digest", [unsigned |-> utx.unsigned, chain_id |-> utx.chain_id,
                 signature |-> utx.signature]>>

Sealed(before, after) ==
    /\ after.unsigned = before.unsigned
    /\ after.chain_id = before.chain_id
    /\ after.signature = before.signature
    /\ check_hash(after).kind = "Ok"
    /\ \A m \in SingleFieldChanges(after) : check_hash(m).kind = "Err"

(* C16: check_hash returns Ok exactly when the cached hash equals the hash
   recomputed from (unsigned, chain id, signature), and otherwise the
   TxHashMismatch error carrying the cached and the recomputed hash; the
   transaction returned by calc_hash, and the one inside the result of
   from_unverified, passes check_hash whatever hash the input carried, and
   stops passing when any single field of it is changed. *)
C16_CheckHash ==
    /\ fnCall.op = "check_hash" =>
          IF fnCall.utx.hash = HashOf(fnCall.utx)
          THEN fnCall.out.kind = "Ok"
          ELSE /\ fnCall.out.kind = "Err"
               /\ fnCall.out.err = "TxHashMismatch"
               /\ fnCall.out.origin = <<fnCall.utx.hash>>
               /\ fnCall.out.calc = <<HashOf(fnCall.utx)>>
    /\ (fnCall.op = "calc_hash" /\ fnCall.out # <<>>) =>
          Sealed(fnCall.utx, fnCall.out[1])
    /\ (fnCall.op = "from_unverified" /\ fnCall.out.kind = "Ok") =>
          Sealed(fnCall.utx, fnCall.out.stx[1].transaction)

C16_Witness ==
    /\ fnCall.op = "from_unverified"
    /\ fnCall.out.kind = "Ok"
    /\ fnCall.utx.hash # HashOf(fnCall.utx)
    /\ fnCall.utx.hash # Hash_default
    /\ check_hash(fnCall.utx).kind = "Err"
    /\ fnCall.out.stx[1].transaction.hash = HashOf(fnCall.utx)

(* C17: from_unverified fails with Unsigned when the signature is absent;
   with a signature it uses ECDSA recovery exactly when |r| + |s| + 1 = 65,
   and otherwise the interoperation scheme, which succeeds only when r[0] = 0
   and the rest of r decodes, and fails with InvalidSignatureRType for any
   other r[0]; no SignedTransaction comes out of a failure. *)
C17_FromUnverified ==
    fnCall.op = "from_unverified" =>
        LET utx == fnCall.utx
            out == fnCall.out
            sig == utx.signature[1]
            total == Len(sig.r) + Len(sig.s) + 1
        IN /\ (out.kind # "Ok" => out.stx = <<>>)
           /\ IF utx.signature = <<>>
              THEN out.kind = "Err" /\ out.err = "Unsigned"
              ELSE IF total = 65
              THEN IF fnCall.recovered # <<>>
                   THEN /\ out.kind = "Ok"
                        /\ out.stx[1].public = fnCall.recovered
                   ELSE out.kind = "Err" /\ out.err = "Crypto"
              ELSE /\ out.err # "Crypto"
                   /\ (out.kind = "Ok" =>
                         /\ sig.r # <<>>
                         /\ sig.r[1] = 0
                         /\ fnCall.decoded # <<>>
                         /\ out.stx[1].public = <<"Public::zero">>)
                   /\ ((sig.r # <<>> /\ sig.r[1] = 0 /\ fnCall.decoded # <<>>) =>
                         out.kind = "Ok")
                   /\ ((sig.r # <<>> /\ sig.r[1] # 0) =>
                         (out.kind = "Err" /\ out.err = "InvalidSignatureRType"))

C17_Witness ==
    /\ fnCall.op = "from_unverified"
    /\ fnCall.utx.signature # <<>>
    /\ Len(fnCall.utx.signature[1].r) = 32
    /\ Len(fnCall.utx.signature[1].s) = 0
    /\ fnCall.utx.signature[1].r[1] = 5
    /\ fnCall.recovered # <<>>
    /\ fnCall.out.err = "InvalidSignatureRType"

(* C21: the proposer exec passes to the fee-allocation policy is the
   adapter's origin as it was when exec was entered, whatever transactions
   the block holds. *)
C21_ProposerAtEntry ==
    \A k \in 1..Len(allocCalls) : allocCalls[k].proposer = Proposer

(***************************************************************************)
(* What the transactions of a block see of one another, under Spec.        *)
(***************************************************************************)
EvmPath(tx) == tx.action \notin SystemContracts

(* the EVM-path transactions sent by a among the first n of the block *)
EvmTxsBefore(a, n) ==
    Cardinality({j \in 1..n : txs[j].sender = a /\ EvmPath(txs[j])})

(* the balance of a after the first n transactions, each EVM-path one
   starting from the balance its predecessor left; the transactions of the
   pool transfer no value *)
RECURSIVE BalanceAfter(_, _)
BalanceAfter(a, n) ==
    IF n = 0 THEN InitAccounts[a].balance
    ELSE LET b == BalanceAfter(a, n - 1)
             tx == txs[n]
             price == IF tx.type = 2
                      THEN Max(tx.gas_price, tx.max_priority_fee_per_gas)
                      ELSE tx.gas_price
         IN IF tx.sender = a /\ EvmPath(tx)
            THEN Min(MAX_U256, Max(0, b - price * tx.gas_limit)
                                   + res[n].remain_gas * price)
            ELSE b

(* C22: within one exec, transaction i + 1 sees the account state left by
   transaction i before any commit: the i-th EVM-path transaction of a
   sender reads nonce start + (i - 1) and the balance its predecessor left,
   a successful creation gets the address of nonce start + (i - 1), and
   after exec the sender's nonce is start + k. *)
C22_SequentialVisibility ==
    pc # "start" =>
        /\ \A a \in Addr :
              accounts[a].nonce = InitAccounts[a].nonce + EvmTxsBefore(a, idx - 1)
        /\ pc = "loop" => \A a \in Addr : accounts[a].balance = BalanceAfter(a, idx - 1)
        /\ \A i \in 1..Len(res) :
              (EvmPath(txs[i]) /\ txs[i].action = "Create"
                  /\ res[i].exit_reason = "Succeed") =>
                 res[i].code_address =
                    <<[creator |-> txs[i].sender,
                       nonce |-> InitAccounts[txs[i].sender].nonce
                                    + EvmTxsBefore(txs[i].sender, i - 1)]>>
        /\ pc = "done" => committed = <<[root |-> accounts]>>

C22_Witness ==
    /\ pc = "done"
    /\ Len(txs) = 2
    /\ txs[1].sender = "a1" /\ txs[2].sender = "a1"
    /\ txs[2].action = "Create"
    /\ res[1].gas_used = 1
    /\ res[2].code_address = <<[creator |-> "a1", nonce |-> 1]>>
    /\ accounts["a1"].nonce = 2
    /\ accounts["a1"].balance < InitAccounts["a1"].balance

(* the logs transaction i itself can have emitted *)
OwnLogs(i) ==
    IF EvmPath(txs[i])
    THEN (IF res[i].exit_reason = "Succeed" THEN EvmLogs(txs[i]) ELSE {<<>>})
    ELSE {o.logs : o \in SysOutcomes(txs[i])}

(* C23: the logs of tx_resp[i] are what was drained from the adapter's log
   buffer right after transaction i, and the buffer is empty after each
   drain: they are logs transaction i emitted itself; a log emitted outside
   a transaction, such as one of the before-block hook, shows up in no
   transaction's result, and an EVM transaction with a non-success exit has
   an empty log list. *)
C23_LogsPerTransaction ==
    /\ (pc = "loop" /\ idx > 1) => logbuf = <<>>
    /\ \A i \in 1..Len(res) :
          /\ res[i].logs \in OwnLogs(i)
          /\ \A k \in 1..Len(res[i].logs) : res[i].logs[k] # HookLog
          /\ (EvmPath(txs[i]) /\ res[i].exit_reason # "Succeed") => res[i].logs = <<>>

(***************************************************************************)
(* SpecConfig: one exec or call on thread t1, from its entry to its last   *)
(* transaction, while the hardfork snapshot is swapped and while the hook  *)
(* and the transactions of the block rewrite the metadata root in storage. *)
(***************************************************************************)
MaxConfigTxs == 2

(* the metadata roots a hook or transaction may leave in storage *)
RewrittenRoots(root) == {root, 9}

(* line 153: every transaction is handed the config resolved at line 141 *)
tx_config_resolved_again(th, info, storage_root) ==
    LET flag == enable_flag(HardforkName.Andromeda, th.le)
        c == config(H256And(info.heap[info.ptr], flag) = flag, storage_root)
    IN IF th.op = "call" THEN [c EXCEPT !.estimate = TRUE] ELSE c

tx_config(th, info, storage_root) == th.config[1]

(* exec, line 144 *)
HookStep(t) ==
    /\ pc = "conc"
    /\ threads[t].pc = "run"
    /\ threads[t].op = "exec"
    /\ \E root \in RewrittenRoots(threads[t].storage) :
         threads' = [threads EXCEPT ![t].pc = "txs",
                                    ![t].storage = root,
                                    ![t].trace = Append(@, "hook")]
    /\ UNCHANGED <<CURRENT_HEADER_CELL_ROOT, CURRENT_METADATA_ROOT, HARDFORK_INFO>>
    /\ UNCHANGED <<execVars, fnCall>>

(* exec, one iteration of the loop *)
TxStep(t) ==
    /\ pc = "conc"
    /\ threads[t].pc = "txs"
    /\ Len(threads[t].used) < MaxConfigTxs
    /\ \E root \in RewrittenRoots(threads[t].storage) :
         threads' = [threads EXCEPT
                        ![t].used = Append(@, tx_config(threads[t], HARDFORK_INFO,
                                                        threads[t].storage)),
                        ![t].storage = root,
                        ![t].trace = Append(@, "tx")]
    /\ UNCHANGED <<CURRENT_HEADER_CELL_ROOT, CURRENT_METADATA_ROOT, HARDFORK_INFO>>
    /\ UNCHANGED <<execVars, fnCall>>

(* exec, after the loop *)
LoopEnd(t) ==
    /\ pc = "conc"
    /\ threads[t].pc = "txs"
    /\ threads' = [threads EXCEPT ![t].pc = "done"]
    /\ UNCHANGED <<CURRENT_HEADER_CELL_ROOT, CURRENT_METADATA_ROOT, HARDFORK_INFO>>
    /\ UNCHANGED <<execVars, fnCall>>

(* call, lines 82-98: the one run of the EVM *)
CallRun(t) ==
    /\ pc = "conc"
    /\ threads[t].pc = "run"
    /\ threads[t].op = "call"
    /\ threads' = [threads EXCEPT
                      ![t].pc = "done",
                      ![t].used = Append(@, tx_config(threads[t], HARDFORK_INFO,
                                                      threads[t].storage)),
                      ![t].trace = Append(@, "tx")]
    /\ UNCHANGED <<CURRENT_HEADER_CELL_ROOT, CURRENT_METADATA_ROOT, HARDFORK_INFO>>
    /\ UNCHANGED <<execVars, fnCall>>

NextConfig ==
    \/ Enter("t1")
    \/ init_local_system_contract_roots("t1")
    \/ HardforkLoad("t1")
    \/ HardforkEval("t1")
    \/ ConfigRead("t1")
    \/ HookStep("t1")
    \/ TxStep("t1")
    \/ LoopEnd("t1")
    \/ CallRun("t1")
    \/ Swap

SpecConfig == InitConc /\ [][NextConfig]_vars

IsPrefix(p, q) == Len(p) <= Len(q) /\ p = SubSeq(q, 1, Len(p))

(* the configuration a snapshot and a metadata root call for *)
ResolvedFrom(snapshot, root, le, estimate) ==
    LET flag == enable_flag(HardforkName.Andromeda, le)
        on == \A j \in 1..H256Len : BitAnd(snapshot[j], flag[j]) = flag[j]
    IN [create_contract_limit |-> IF on THEN <<100 + root>> ELSE <<24576>>,
        estimate |-> estimate]

(* C24: within one exec the two roots and the configuration are resolved
   once, before the before-block hook and before any transaction, and every
   transaction runs under that configuration, whatever swaps of the
   hardfork snapshot and rewrites of the metadata root in storage happen
   while the block executes. *)
C24_ResolvedOnce ==
    LET th == threads["t1"]
    IN /\ IsPrefix(th.trace, <<"roots", "config", "hook">> \o [j \in 1..MaxConfigTxs |-> "tx"])
          \/ IsPrefix(th.trace, <<"roots", "config", "tx">>)
       /\ \A k \in 1..Len(th.used) :
             th.used[k] = ResolvedFrom(th.at_load, th.backend.metadata_root,
                                       th.le, th.op = "call")

C24_Witness ==
    LET th == threads["t1"]
    IN /\ th.pc = "done"
       /\ th.op = "exec"
       /\ Len(th.used) = 2
       /\ th.storage = 9
       /\ th.enabled
       /\ HARDFORK_INFO.heap[HARDFORK_INFO.ptr] = H256_default
       /\ th.used[2].create_contract_limit = <<100 + th.backend.metadata_root>>

(* C25: config is the London profile with the maximum creation size set to
   the metadata contract's max_contract_limit at the cached metadata root
   when the Andromeda bit is set in the snapshot, and to 0x6000 when it is
   not; call resolves it with estimation on, exec with estimation off. *)
C25_ConfigResolution ==
    LET th == threads["t1"]
    IN th.config # <<>> =>
          th.config[1] = ResolvedFrom(th.at_load, th.backend.metadata_root, th.le,
                                      th.op = "call")

C25_Witness ==
    LET th == threads["t1"]
    IN /\ th.config # <<>>
       /\ th.op = "call"
       /\ th.enabled
       /\ th.backend.metadata_root = 4
       /\ th.config[1] = [create_contract_limit |-> <<104>>, estimate |-> TRUE]

(* C26: evm_exec returns a created address exactly when the action is Create
   and the exit is a success, and the address is derived from the sender and
   the nonce the sender had before the transaction ran; calls and failed
   creations return none.  The result has removed = false, no logs, and
   fee_cost = min(MAX_U256, gas_used * gas_price). *)
C26_CreatedAddress ==
    fnCall.op = "evm_exec" =>
        LET tx == fnCall.tx
            r == fnCall.resp
            price == IF tx.type = 2
                     THEN Max(tx.gas_price, tx.max_priority_fee_per_gas)
                     ELSE tx.gas_price
        IN /\ (r.code_address # <<>>) <=> (tx.action = "Create" /\ fnCall.o.exit = "Succeed")
           /\ r.code_address # <<>> =>
                 r.code_address = <<[creator |-> tx.sender,
                                     nonce |-> fnCall.pre[tx.sender].nonce]>>
           /\ r.removed = FALSE
           /\ r.logs = <<>>
           /\ r.fee_cost = Min(MAX_U256, r.gas_used * price)

C26_Witness ==
    /\ fnCall.op = "evm_exec"
    /\ fnCall.tx.action = "Create"
    /\ fnCall.o.exit = "Succeed"
    /\ fnCall.o.logs # <<>>
    /\ fnCall.resp.gas_used > 0
    /\ fnCall.resp.fee_cost > 0
    /\ fnCall.resp.code_address[1].nonce + 1 = accounts[fnCall.tx.sender].nonce

(* C27: from_unverified is total: for every UnverifiedTransaction, also one
   whose signature has an empty r or r and s of any lengths, it returns a
   SignedTransaction or a typed error, and never aborts. *)
C27_FromUnverifiedTotal ==
    fnCall.op = "from_unverified" =>
        /\ fnCall.out.kind \in {"Ok", "Err"}
        /\ (fnCall.out.kind = "Ok") <=> (fnCall.out.stx # <<>>)
        /\ (fnCall.out.kind = "Err") <=> (fnCall.out.err # "")

(* C28: may_cost never returns the cost-overflow error: the product of two
   64-bit values always fits, so for every transaction the result is
   Ok(min(MAX_U256, gas_price * gas_limit + value)), gas_price being the
   effective price of the variant. *)
C28_MayCostNeverFails ==
    fnCall.op = "may_cost" =>
        LET tx == fnCall.tx
            price == IF tx.type = 2
                     THEN Max(tx.gas_price, tx.max_priority_fee_per_gas)
                     ELSE tx.gas_price
        IN /\ fnCall.out # <<>>
           /\ price * tx.gas_limit <= MAX_U256
           /\ fnCall.out = <<Min(MAX_U256, price * tx.gas_limit + tx.value)>>

C28_Witness ==
    /\ fnCall.op = "may_cost"
    /\ fnCall.tx.type = 2
    /\ fnCall.tx.gas_price = 0
    /\ fnCall.tx.max_priority_fee_per_gas = MAX_U64
    /\ fnCall.tx.gas_limit = MAX_U64
    /\ fnCall.tx.value = 1
    /\ fnCall.out = <<MAX_U64 * MAX_U64 + 1>>

(* C29: the replay-protection encoding of the recovery indicator round
   trips: for standard_v in {0, 1} and an optional chain id c with 2c + 36
   representable, v = add_chain_replay_protection(c) gives
   extract_standard_v(v) = Some(standard_v) and extract_chain_id(v) = c,
   which is None when c is absent, v then being 27 or 28; and
   extract_standard_v is None for v below 27 and for 29..34. *)
C29_ReplayProtectionRoundTrip ==
    /\ fnCall.op = "add_chain_replay_protection" =>
          LET c == fnCall.chain_id
          IN (c = <<>> \/ 2 * c[1] + 36 <= MaxChainWord) =>
                /\ fnCall.v # <<>>
                /\ fnCall.standard_v = <<fnCall.sig.standard_v>>
                /\ fnCall.back = c
                /\ c = <<>> => fnCall.v[1] = 27 + fnCall.sig.standard_v
                /\ c # <<>> => fnCall.v[1] = 2 * c[1] + 35 + fnCall.sig.standard_v
    /\ fnCall.op = "extract_standard_v" =>
          /\ (fnCall.v < 27 \/ fnCall.v \in 29..34) => fnCall.out = <<>>
          /\ fnCall.v \in {27, 28} => fnCall.chain_id = <<>>

C29_Witness ==
    /\ fnCall.op = "add_chain_replay_protection"
    /\ fnCall.chain_id = <<5>>
    /\ fnCall.sig.standard_v = 1
    /\ fnCall.v = <<46>>
    /\ fnCall.standard_v = <<1>>
    /\ fnCall.back = <<5>>

====
